---- MODULE Spec2Model ----
(***************************************************************************)
(* The tool-call orchestration loops of the example applications:          *)
(*   eda      examples/sandbox/sandbox_eda.py       SandboxEDA.eda_chat    *)
(*   gradio   examples/sandbox-chat-agent/gradio_chat.py   chat_fn         *)
(*   toggle   examples/sandbox-chat-agent/gradio_chat.py   toggle_sandbox  *)
(*   ws       examples/sandbox-code-assistant/main.py  websocket_endpoint  *)
(*   agent    agentic-frameworks/openai-agents-sdk/app.py   run_agent      *)
(*   autogen  agentic-frameworks/autogen/app.py     agent_invocation       *)
(*   langgraph agentic-frameworks/langgraph/app.py  agent_invocation       *)
(* One behaviour is one process running one of the applications; the       *)
(* model, the sandbox and the user are the environment and their answers   *)
(* are drawn from small sets.                                              *)
(***************************************************************************)
EXTENDS Integers, Sequences, FiniteSets, TLC

\* ---------------------------------------------------------------- bounds
MaxTurns == 2
MaxCalls == 2
MaxRounds == 2
MaxChunks == 2
MaxToolCalls == 3
MaxSessions == 2
MaxSwitches == 2

Apps == {"eda", "gradio", "toggle", "ws", "agent", "autogen", "langgraph"}

VARIABLES
    app,        \* which application this process runs
    pc,         \* position of the handler / chat loop
    messages,   \* the message list of eda_chat, chat_fn, websocket_endpoint, run_agent;
                \* autogen / langgraph: the message list given to the agent / graph
    conversation_history,  \* the module global of the autogen and langgraph apps
    streaming,  \* request.get("streaming", False) of the current invocation
    accumulated_content,   \* local of _handle_streaming
    chunks,     \* items the model stream has delivered to _handle_streaming
    max_consecutive_function_calls_allowed,  \* SandboxEDA field
    i,          \* loop variable of "for i in range(max + 1)"
    tool_calls, \* ids of the tool calls of the response being processed
    k,          \* number of tool calls of tool_calls already processed
    sandbox,    \* gradio: the global sandbox; ws: the connection's sandbox;
                \* toggle: the global sandbox as the id it refers to
    available,  \* OPENAI_AVAILABLE / AUTOGEN_AVAILABLE
    turn,       \* number of user prompts read so far
    modelCalls, \* model invocations made in the current turn
    exc,        \* the exception that left the turn's function, "none" if none
    out,        \* what the current turn has handed to its caller
    lastTool,   \* the tool call processed last: request and what its operation did
    trace,      \* the environment's inputs so far: prompts and model responses
    prompt,     \* autogen / langgraph: request.get("prompt") of the running invocation
    suspended,  \* autogen / langgraph: the locals of the invocation that is
                \* in flight but not running, if any
    sandbox_timer,  \* toggle: the global sandbox_timer, the thread started last
    threads,    \* toggle: the sandbox_auto_off threads started so far
    remote,     \* toggle: the sandboxes alive at the sandbox service
    created,    \* toggle: number of sandboxes Sandbox.create has returned
    killedBy    \* toggle: which timer thread's kill() ended which sandbox

loopVars == <<messages, max_consecutive_function_calls_allowed, i, tool_calls,
              k, sandbox, lastTool>>
\* loopVars without the message list
toolVars == <<max_consecutive_function_calls_allowed, i, tool_calls, k, sandbox,
              lastTool>>
runtimeVars == <<conversation_history, streaming, accumulated_content, chunks,
                 prompt, suspended>>

vars == <<app, pc, messages, max_consecutive_function_calls_allowed, i,
          tool_calls, k, sandbox, available, turn, modelCalls, exc, out,
          lastTool, trace, conversation_history, streaming,
          accumulated_content, chunks,
          prompt, suspended,
          sandbox_timer, threads, remote, created, killedBy>>

toggleVars == <<sandbox_timer, threads, remote, created, killedBy>>

\* ---------------------------------------------------------------- messages
NoId == 0

Msg(role, content, id, calls) ==
    [role |-> role, content |-> content, tool_call_id |-> id, calls |-> calls]

UserMsg(text) == Msg("user", text, NoId, <<>>)
AssistantMsg(text) == Msg("assistant", text, NoId, <<>>)
\* the assistant message that carries tool-call requests; calls are their ids
AssistantCallMsg(calls) == Msg("assistant", "", NoId, calls)
ToolMsg(id, content) == Msg("tool", content, id, <<>>)
SystemMsg == Msg("system", "SYSTEM_PROMPT", NoId, <<>>)

\* ---------------------------------------------------------------- the environment
Prompts == {"p"}
Texts == {"a", "b"}

\* the environment's inputs, as recorded in trace: "user" a prompt, "text" a
\* response without tool calls (or a stream that ended), "fail" a model call
\* that raised, and a response with n tool calls
Event(ev) == [ev |-> ev, n |-> 0]
ToolsEvent(n) == [ev |-> "tools", n |-> n]
\* a prompt sent by session s: a browser session of the gradio app, a
\* connection of the websocket app
SessionEvent(s) == [ev |-> "user", n |-> 0, session |-> s]

\* websocket app: the number of the connection being served
Connection(tr) == 1 + Cardinality({j \in 1..Len(tr) : tr[j].ev = "connect"})

\* tool calls the model has requested so far in this process
RECURSIVE Requested(_)
Requested(tr) ==
    IF tr = <<>> THEN 0 ELSE tr[1].n + Requested(Tail(tr))

\* how many tool calls a response may carry: at most MaxCalls, and at most
\* MaxToolCalls over the whole run
CallCounts(tr) == {n \in 1..MaxCalls : Requested(tr) + n <= MaxToolCalls}

\* gradio app: the browser sessions that have sent a prompt
SessionsSeen(tr) ==
    {tr[j].session : j \in {h \in 1..Len(tr) : tr[h].ev = "user"}}

\* gradio app: the browser sessions that can send the next prompt: those
\* that have sent one, and one that has not (sessions are numbered in the
\* order of their first prompt). chat_fn never looks at the session, so the
\* runs explored have several sessions or tool requests, not both.
Sessions(tr) ==
    IF Requested(tr) > 0 THEN {1}
    ELSE {s \in 1..MaxSessions : s <= Cardinality(SessionsSeen(tr)) + 1}

\* gradio app: how many tool calls a response may carry
ChatFnCallCounts(tr) ==
    IF Cardinality(SessionsSeen(tr)) > 1 THEN {} ELSE CallCounts(tr)

\* ids of the n tool calls of a response given for a history of length len:
\* fresh, because every response appends at least one message
CallIds(len, n) == [j \in 1..n |-> len + j]

\* what the arguments string of a tool call is: parseable with the tool's
\* parameters, not parseable, or parseable with other keys
ArgKinds == {"ok", "malformed", "wrong_keys"}

\* what a sandbox / file-system operation does
Outcomes == {"ok", "raises"}

UnknownTool == "does_not_exist"

\* exceptions a tool-call iteration can let out of the loop
Exceptions == {"ArgsError", "ToolError", "UnknownToolError"}

NoTool == [id |-> NoId, name |-> "none", args |-> "ok", outcome |-> "ok"]
ToolRec(id, name, args, outcome) ==
    [id |-> id, name |-> name, args |-> args, outcome |-> outcome]

\* ---------------------------------------------------------------- eda_chat
EdaTools == {"run_python_code", "run_on_command_line", "sync_with_user",
             "delete_from_user_sync_folder"}

\* the limit test one round late
RoundLimitReachedLate(round, max) == round = max + 1

\* if i == self.max_consecutive_function_calls_allowed
RoundLimitReached(round, max) == round = max

\* the assistant message that requested the tools is not kept
WithoutToolCallMsg(msgs, calls) == msgs

\* messages.append(response_message): the assistant message that requested tools
WithToolCallMsg(msgs, calls) == Append(msgs, AssistantCallMsg(calls))

\* Prompt.ask ... messages.append(user)
EdaUserInput ==
    /\ app = "eda" /\ pc = "prompt" /\ turn < MaxTurns
    /\ \E p \in Prompts : messages' = Append(messages, UserMsg(p))
    /\ turn' = turn + 1
    /\ i' = 0
    /\ modelCalls' = 0
    /\ trace' = Append(trace, Event("user"))
    /\ pc' = "loop"
    /\ UNCHANGED runtimeVars
    /\ UNCHANGED toggleVars
    /\ UNCHANGED <<app, max_consecutive_function_calls_allowed, tool_calls, k,
                   sandbox, available, exc, out, lastTool>>

\* user typed quit()
EdaQuit ==
    /\ app = "eda" /\ pc = "prompt"
    /\ pc' = "quit"
    /\ UNCHANGED runtimeVars
    /\ UNCHANGED toggleVars
    /\ UNCHANGED <<app, messages, max_consecutive_function_calls_allowed, i,
                   tool_calls, k, sandbox, available, turn, modelCalls, exc,
                   out, lastTool, trace>>

\* if i == self.max_consecutive_function_calls_allowed: raise Exception(...)
\* nothing catches it in eda_chat, start_eda or main
EdaRoundLimit ==
    /\ app = "eda" /\ pc = "loop"
    /\ RoundLimitReached(i, max_consecutive_function_calls_allowed)
    /\ exc' = "RoundLimit"
    /\ pc' = "crashed"
    /\ UNCHANGED runtimeVars
    /\ UNCHANGED toggleVars
    /\ UNCHANGED <<app, messages, max_consecutive_function_calls_allowed, i,
                   tool_calls, k, sandbox, available, turn, modelCalls, out,
                   lastTool, trace>>

\* client.chat.completions.create raises
EdaModelCallFails ==
    /\ app = "eda" /\ pc = "loop"
    /\ ~RoundLimitReached(i, max_consecutive_function_calls_allowed)
    /\ modelCalls' = modelCalls + 1
    /\ lastTool' = NoTool
    /\ exc' = "ModelError"
    /\ pc' = "crashed"
    /\ UNCHANGED runtimeVars
    /\ UNCHANGED toggleVars
    /\ UNCHANGED <<app, messages, max_consecutive_function_calls_allowed, i,
                   tool_calls, k, sandbox, available, turn, out, trace>>

\* response with tool calls: messages.append(response_message)
EdaModelCallTools ==
    /\ app = "eda" /\ pc = "loop"
    /\ ~RoundLimitReached(i, max_consecutive_function_calls_allowed)
    /\ \E n \in CallCounts(trace) :
         /\ tool_calls' = CallIds(Len(messages), n)
         /\ messages' = WithToolCallMsg(messages, CallIds(Len(messages), n))
         /\ trace' = Append(trace, ToolsEvent(n))
    /\ modelCalls' = modelCalls + 1
    /\ lastTool' = NoTool
    /\ k' = 0
    /\ pc' = "tools"
    /\ UNCHANGED runtimeVars
    /\ UNCHANGED toggleVars
    /\ UNCHANGED <<app, max_consecutive_function_calls_allowed, i, sandbox,
                   available, turn, exc, out>>

\* response without tool calls: append the assistant message, break
EdaModelCallText ==
    /\ app = "eda" /\ pc = "loop"
    /\ ~RoundLimitReached(i, max_consecutive_function_calls_allowed)
    /\ \E t \in Texts :
         /\ messages' = Append(messages, AssistantMsg(t))
         /\ out' = <<[reply |-> t]>>
    /\ trace' = Append(trace, Event("text"))
    /\ modelCalls' = modelCalls + 1
    /\ lastTool' = NoTool
    /\ pc' = "prompt"
    /\ UNCHANGED runtimeVars
    /\ UNCHANGED toggleVars
    /\ UNCHANGED <<app, max_consecutive_function_calls_allowed, i, tool_calls,
                   k, sandbox, available, turn, exc>>

\* what one iteration of "for tool_call in tool_calls" does for a request of
\* tool `name` with arguments `args` when the tool's operation does `outcome`:
\* the exception that leaves the loop, else the tool message's content
EdaToolResult(name, args, outcome) ==
    IF args = "malformed" THEN "ArgsError"           \* json.loads raises
    ELSE IF name \notin EdaTools THEN "UnknownToolError"   \* raise ValueError
    ELSE IF args = "wrong_keys" THEN "ArgsError"     \* args["python_code"] raises
    ELSE IF name = "run_python_code"
         THEN IF outcome = "raises" THEN "ToolError" ELSE "ok"  \* no try/except
    ELSE IF outcome = "raises" THEN "err" ELSE "ok"  \* except: return str(e)

EdaToolStep ==
    /\ app = "eda" /\ pc = "tools" /\ k < Len(tool_calls)
    /\ \E name \in EdaTools \cup {UnknownTool}, args \in ArgKinds, outcome \in Outcomes :
         LET r == EdaToolResult(name, args, outcome) IN
         /\ lastTool' = ToolRec(tool_calls[k + 1], name, args, outcome)
         /\ IF r \in Exceptions
            THEN /\ exc' = r
                 /\ pc' = "crashed"
                 /\ UNCHANGED <<messages, k, i>>
            ELSE /\ messages' = Append(messages, ToolMsg(tool_calls[k + 1], r))
                 /\ k' = k + 1
                 /\ IF k + 1 = Len(tool_calls)
                    THEN i' = i + 1 /\ pc' = "loop"
                    ELSE i' = i /\ pc' = "tools"
                 /\ exc' = exc
    /\ UNCHANGED runtimeVars
    /\ UNCHANGED toggleVars
    /\ UNCHANGED <<app, max_consecutive_function_calls_allowed, tool_calls,
                   sandbox, available, turn, modelCalls, out, trace>>

EdaNext ==
    \/ EdaUserInput
    \/ EdaQuit
    \/ EdaRoundLimit
    \/ EdaModelCallFails
    \/ EdaModelCallTools
    \/ EdaModelCallText
    \/ EdaToolStep

\* ---------------------------------------------------------------- chat_fn (gradio_chat)
SandboxTools == {"read_file", "write_file", "write_files", "run_commands"}

\* create_sandbox(): the switch is turned on
create_sandbox ==
    /\ app = "gradio"
    /\ sandbox = "none"
    /\ sandbox' = "alive"
    /\ UNCHANGED runtimeVars
    /\ UNCHANGED toggleVars
    /\ UNCHANGED <<app, pc, messages, max_consecutive_function_calls_allowed, i,
                   tool_calls, k, available, turn, modelCalls, exc, out,
                   lastTool, trace>>

\* kill_sandbox(): the switch is turned off, or the auto-off timer fires
kill_sandbox ==
    /\ app = "gradio"
    /\ sandbox # "none"
    /\ sandbox' = "none"
    /\ UNCHANGED runtimeVars
    /\ UNCHANGED toggleVars
    /\ UNCHANGED <<app, pc, messages, max_consecutive_function_calls_allowed, i,
                   tool_calls, k, available, turn, modelCalls, exc, out,
                   lastTool, trace>>

\* messages.append({"role": "user", ...})
ChatFnStart ==
    /\ app = "gradio" /\ pc = "idle" /\ turn < MaxTurns
    /\ \E p \in Prompts : messages' = Append(messages, UserMsg(p))
    /\ turn' = turn + 1
    /\ modelCalls' = 0
    /\ exc' = "none"
    /\ out' = <<>>
    /\ lastTool' = NoTool
    \* any browser session's ChatInterface calls chat_fn
    /\ \E s \in Sessions(trace) : trace' = Append(trace, SessionEvent(s))
    /\ pc' = "call1"
    /\ UNCHANGED runtimeVars
    /\ UNCHANGED toggleVars
    /\ UNCHANGED <<app, max_consecutive_function_calls_allowed, i, tool_calls,
                   k, sandbox, available>>

\* the first client.chat.completions.create and the append of its message
ChatFnFirstCall ==
    /\ app = "gradio" /\ pc = "call1"
    /\ modelCalls' = modelCalls + 1
    /\ \/ /\ exc' = "ModelError"            \* raises: leaves chat_fn
          /\ pc' = "idle"
          /\ UNCHANGED <<messages, tool_calls, k, out, trace>>
       \/ \E t \in Texts :                  \* no tool calls: return content
          /\ messages' = Append(messages, AssistantMsg(t))
          /\ out' = <<[reply |-> t]>>
          /\ trace' = Append(trace, Event("text"))
          /\ pc' = "idle"
          /\ UNCHANGED <<tool_calls, k, exc>>
       \/ \E n \in ChatFnCallCounts(trace) :
          /\ tool_calls' = CallIds(Len(messages), n)
          /\ messages' = Append(messages, AssistantCallMsg(CallIds(Len(messages), n)))
          /\ trace' = Append(trace, ToolsEvent(n))
          /\ k' = 0
          /\ pc' = "tools"
          /\ UNCHANGED <<exc, out>>
    /\ UNCHANGED runtimeVars
    /\ UNCHANGED toggleVars
    /\ UNCHANGED <<app, max_consecutive_function_calls_allowed, i, sandbox,
                   available, turn, lastTool>>

\* require_sandbox()
require_sandbox(sb) == IF sb = "none" THEN "off" ELSE "none"

\* the part of a tool-call iteration before the sandbox is used: json.loads,
\* the dispatch on fn_name, the call fn(**fn_args) and its require_sandbox().
\* An exception, a tool message content, or "op" (the sandbox is used next).
ChatFnDispatch(name, args, sb) ==
    IF args = "malformed" THEN "ArgsError"            \* json.loads raises
    ELSE IF name \notin SandboxTools THEN "unknown"   \* f"Unknown tool {fn_name}"
    ELSE IF args = "wrong_keys" THEN "ArgsError"      \* fn(**fn_args) raises
    ELSE IF require_sandbox(sb) # "none" THEN "off"
    ELSE "op"

\* only the sandbox's own errors are caught, not the AttributeError on None
ChatFnSandboxOpUncaught(sb, outcome) ==
    IF sb = "none" THEN "ToolError"
    ELSE IF outcome = "raises" THEN "err" ELSE "ok"

\* try: sandbox.<op>(...) except Exception as e: return f"Error ...: {e}"
\* (sandbox is None again: AttributeError, caught as well)
ChatFnSandboxOp(sb, outcome) ==
    IF sb = "none" THEN "err"
    ELSE IF outcome = "raises" THEN "err" ELSE "ok"

\* messages.append({"tool_call_id": tc.id, "role": "tool", "content": str(result)})
\* the results are matched to the tool calls from the end of the list
ChatFnAppendResultReversed(r) ==
    /\ messages' = Append(messages, ToolMsg(tool_calls[Len(tool_calls) - k], r))
    /\ k' = k + 1
    /\ pc' = IF k + 1 = Len(tool_calls) THEN "call2" ELSE "tools"
    /\ exc' = exc

ChatFnAppendResult(r) ==
    /\ messages' = Append(messages, ToolMsg(tool_calls[k + 1], r))
    /\ k' = k + 1
    /\ pc' = IF k + 1 = Len(tool_calls) THEN "call2" ELSE "tools"
    /\ exc' = exc

ChatFnToolStart ==
    /\ app = "gradio" /\ pc = "tools" /\ k < Len(tool_calls)
    /\ \E name \in SandboxTools \cup {UnknownTool}, args \in ArgKinds :
         LET r == ChatFnDispatch(name, args, sandbox) IN
         /\ lastTool' = ToolRec(tool_calls[k + 1], name, args,
                                IF r = "op" THEN "pending" ELSE r)
         /\ IF r \in Exceptions
            THEN /\ exc' = r
                 /\ pc' = "idle"
                 /\ UNCHANGED <<messages, k>>
            ELSE IF r = "op"
            THEN /\ pc' = "tool_op"
                 /\ UNCHANGED <<messages, k, exc>>
            ELSE ChatFnAppendResult(r)
    /\ UNCHANGED runtimeVars
    /\ UNCHANGED toggleVars
    /\ UNCHANGED <<app, max_consecutive_function_calls_allowed, i, tool_calls,
                   sandbox, available, turn, modelCalls, out, trace>>

ChatFnToolOp ==
    /\ app = "gradio" /\ pc = "tool_op"
    /\ \E outcome \in Outcomes :
         LET r == ChatFnSandboxOp(sandbox, outcome) IN
         /\ lastTool' = [lastTool EXCEPT !.outcome =
                            IF sandbox = "none" THEN "sandbox_gone" ELSE outcome]
         /\ IF r \in Exceptions
            THEN /\ exc' = r
                 /\ pc' = "idle"
                 /\ UNCHANGED <<messages, k>>
            ELSE ChatFnAppendResult(r)
    /\ UNCHANGED runtimeVars
    /\ UNCHANGED toggleVars
    /\ UNCHANGED <<app, max_consecutive_function_calls_allowed, i, tool_calls,
                   sandbox, available, turn, modelCalls, out, trace>>

\* the follow-up call offers the tools again and its requests are executed
ChatFnFollowupWithTools ==
    /\ app = "gradio" /\ pc = "call2"
    /\ modelCalls' = modelCalls + 1
    /\ lastTool' = NoTool
    /\ \/ /\ exc' = "ModelError"
          /\ pc' = "idle"
          /\ UNCHANGED <<messages, out, trace, tool_calls, k>>
       \/ \E t \in Texts :
          /\ messages' = Append(messages, AssistantMsg(t))
          /\ out' = <<[reply |-> t]>>
          /\ trace' = Append(trace, Event("text"))
          /\ exc' = exc
          /\ pc' = "idle"
          /\ UNCHANGED <<tool_calls, k>>
       \/ \E n \in CallCounts(trace) :
          /\ tool_calls' = CallIds(Len(messages), n)
          /\ messages' = Append(messages, AssistantCallMsg(CallIds(Len(messages), n)))
          /\ trace' = Append(trace, ToolsEvent(n))
          /\ k' = 0
          /\ pc' = "tools"
          /\ UNCHANGED <<exc, out>>
    /\ UNCHANGED runtimeVars
    /\ UNCHANGED toggleVars
    /\ UNCHANGED <<app, max_consecutive_function_calls_allowed, i,
                   sandbox, available, turn>>

\* followup = client.chat.completions.create(...); messages.append(final_msg)
ChatFnFollowup ==
    /\ app = "gradio" /\ pc = "call2"
    /\ modelCalls' = modelCalls + 1
    /\ lastTool' = NoTool
    /\ \/ /\ exc' = "ModelError"
          /\ UNCHANGED <<messages, out, trace>>
       \/ \E t \in Texts :
          /\ messages' = Append(messages, AssistantMsg(t))
          /\ out' = <<[reply |-> t]>>
          /\ trace' = Append(trace, Event("text"))
          /\ exc' = exc
    /\ pc' = "idle"
    /\ UNCHANGED runtimeVars
    /\ UNCHANGED toggleVars
    /\ UNCHANGED <<app, max_consecutive_function_calls_allowed, i, tool_calls,
                   k, sandbox, available, turn>>

GradioNext ==
    \/ create_sandbox
    \/ kill_sandbox
    \/ ChatFnStart
    \/ ChatFnFirstCall
    \/ ChatFnToolStart
    \/ ChatFnToolOp
    \/ ChatFnFollowup

\* ---------------------------------------------------------------- toggle_sandbox
\* gradio_chat.py: the sandbox switch, its auto-off threads and the exit hook.
\* The event handler, every sandbox_auto_off thread and the exit hook run
\* kill_sandbox on the same globals without a lock, so the statements of
\* kill_sandbox are steps of their own.
NoSandbox == 0
NoThread == 0

\* what toggle_sandbox and its threads leave alone
chatVars == <<messages, max_consecutive_function_calls_allowed, i, tool_calls,
              k, lastTool, available, turn, modelCalls, exc, out, trace>>

\* threading.Thread(target=sandbox_auto_off, daemon=True): own is the sandbox
\* that the ON switch starting the thread has created, if it created one
TimerThread(own) == [pc |-> "sleep", own |-> own]

\* sandbox.kill() of kill_sandbox, inside try / except Exception: pass. The
\* global is read when the statement runs; on None the AttributeError is
\* swallowed. ended: the service ends the sandbox (otherwise kill() raised,
\* or the sandbox was gone already)
SandboxKill(ended) ==
    remote' = IF ended THEN remote \ {sandbox} ELSE remote

\* toggle_sandbox(True): create_sandbox(), then the auto-off thread is started
\* whether or not a sandbox was created
ToggleOn ==
    /\ app = "toggle" /\ pc = "idle"
    /\ Len(threads) < MaxSwitches
    /\ IF sandbox = NoSandbox
       THEN /\ created' = created + 1
            /\ sandbox' = created + 1
            /\ remote' = remote \cup {created + 1}
            /\ threads' = Append(threads, TimerThread(created + 1))
       ELSE /\ threads' = Append(threads, TimerThread(NoSandbox))
            /\ UNCHANGED <<created, sandbox, remote>>
    /\ sandbox_timer' = Len(threads) + 1
    /\ UNCHANGED runtimeVars
    /\ UNCHANGED chatVars
    /\ UNCHANGED <<app, pc, killedBy>>

\* toggle_sandbox(False): kill_sandbox() is entered, if sandbox is not None
ToggleOff ==
    /\ app = "toggle" /\ pc = "idle"
    /\ sandbox # NoSandbox
    /\ pc' = "kill"
    /\ UNCHANGED runtimeVars
    /\ UNCHANGED chatVars
    /\ UNCHANGED toggleVars
    /\ UNCHANGED <<app, sandbox>>

\* atexit: kill_sandbox() is entered when the process ends
AtExit ==
    /\ app = "toggle" /\ pc = "idle"
    /\ pc' = IF sandbox # NoSandbox THEN "exit_kill" ELSE "exited"
    /\ UNCHANGED runtimeVars
    /\ UNCHANGED chatVars
    /\ UNCHANGED toggleVars
    /\ UNCHANGED <<app, sandbox>>

\* kill_sandbox of the handler / the exit hook: try: sandbox.kill()
HandlerKill ==
    /\ app = "toggle" /\ pc \in {"kill", "exit_kill"}
    /\ \E ended \in BOOLEAN : SandboxKill(ended)
    /\ pc' = IF pc = "kill" THEN "assign" ELSE "exit_assign"
    /\ UNCHANGED runtimeVars
    /\ UNCHANGED chatVars
    /\ UNCHANGED <<app, sandbox, sandbox_timer, threads, created, killedBy>>

\* kill_sandbox of the handler / the exit hook: sandbox = None
HandlerAssign ==
    /\ app = "toggle" /\ pc \in {"assign", "exit_assign"}
    /\ sandbox' = NoSandbox
    /\ pc' = IF pc = "assign" THEN "idle" ELSE "exited"
    /\ UNCHANGED runtimeVars
    /\ UNCHANGED chatVars
    /\ UNCHANGED toggleVars
    /\ UNCHANGED app

\* sandbox_auto_off: time.sleep(1200) returns and kill_sandbox() is entered
TimerFires(t) ==
    /\ app = "toggle" /\ pc # "exited"
    /\ threads[t].pc = "sleep"
    /\ threads' = [threads EXCEPT ![t].pc =
                       IF sandbox # NoSandbox THEN "kill" ELSE "done"]
    /\ UNCHANGED runtimeVars
    /\ UNCHANGED chatVars
    /\ UNCHANGED <<app, pc, sandbox, sandbox_timer, remote, created, killedBy>>

\* kill_sandbox of an auto-off thread: try: sandbox.kill()
TimerKill(t) ==
    /\ app = "toggle" /\ pc # "exited"
    /\ threads[t].pc = "kill"
    /\ \E ended \in BOOLEAN :
         /\ SandboxKill(ended)
         /\ killedBy' = IF ended /\ sandbox \in remote
                         THEN killedBy \cup {<<threads[t].own, sandbox>>}
                         ELSE killedBy
    /\ threads' = [threads EXCEPT ![t].pc = "assign"]
    /\ UNCHANGED runtimeVars
    /\ UNCHANGED chatVars
    /\ UNCHANGED <<app, pc, sandbox, sandbox_timer, created>>

\* kill_sandbox of an auto-off thread: sandbox = None
TimerAssign(t) ==
    /\ app = "toggle" /\ pc # "exited"
    /\ threads[t].pc = "assign"
    /\ sandbox' = NoSandbox
    /\ threads' = [threads EXCEPT ![t].pc = "done"]
    /\ UNCHANGED runtimeVars
    /\ UNCHANGED chatVars
    /\ UNCHANGED <<app, pc, sandbox_timer, remote, created, killedBy>>

\* Sandbox.create(timeout=1200): the service ends a sandbox by itself
SandboxTimeout ==
    /\ app = "toggle"
    /\ \E id \in remote : remote' = remote \ {id}
    /\ UNCHANGED runtimeVars
    /\ UNCHANGED chatVars
    /\ UNCHANGED <<app, pc, sandbox, sandbox_timer, threads, created, killedBy>>

ToggleNext ==
    \/ ToggleOn
    \/ ToggleOff
    \/ AtExit
    \/ HandlerKill
    \/ HandlerAssign
    \/ \E t \in 1..Len(threads) : TimerFires(t)
    \/ \E t \in 1..Len(threads) : TimerKill(t)
    \/ \E t \in 1..Len(threads) : TimerAssign(t)
    \/ SandboxTimeout

\* ---------------------------------------------------------------- websocket_endpoint
\* the handler is over, its sandbox is left running
WsFinallyWithoutKill ==
    /\ sandbox' = sandbox
    /\ pc' = "closed"

\* finally: sandbox.kill(); the handler is over
WsFinally ==
    /\ sandbox' = "killed"
    /\ pc' = "closed"

\* the next client connects: await ws.accept(); sandbox = Sandbox.create(...);
\* tool_handlers = ...; messages = []
WsConnect ==
    /\ app = "ws" /\ pc = "closed"
    /\ Connection(trace) < MaxSessions
    /\ sandbox' = "alive"
    /\ messages' = <<>>
    /\ tool_calls' = <<>>
    /\ k' = 0
    /\ modelCalls' = 0
    /\ exc' = "none"
    /\ out' = <<>>
    /\ lastTool' = NoTool
    /\ trace' = Append(trace, Event("connect"))
    /\ pc' = "recv"
    /\ UNCHANGED runtimeVars
    /\ UNCHANGED toggleVars
    /\ UNCHANGED <<app, max_consecutive_function_calls_allowed, i, available,
                   turn>>

\* data = await ws.receive_text(); messages.append(user)
WsReceive ==
    /\ app = "ws" /\ pc = "recv" /\ turn < MaxTurns
    /\ \E p \in Prompts : messages' = Append(messages, UserMsg(p))
    /\ turn' = turn + 1
    /\ modelCalls' = 0
    /\ out' = <<>>
    /\ lastTool' = NoTool
    /\ trace' = Append(trace, SessionEvent(Connection(trace)))
    /\ pc' = "call1"
    /\ UNCHANGED runtimeVars
    /\ UNCHANGED toggleVars
    /\ UNCHANGED <<app, max_consecutive_function_calls_allowed, i, tool_calls,
                   k, sandbox, available, exc>>

\* receive_text raises WebSocketDisconnect: except WebSocketDisconnect, finally
WsDisconnect ==
    /\ app = "ws" /\ pc = "recv"
    /\ WsFinally
    /\ UNCHANGED runtimeVars
    /\ UNCHANGED toggleVars
    /\ UNCHANGED <<app, messages, max_consecutive_function_calls_allowed, i,
                   tool_calls, k, available, turn, modelCalls, exc, out,
                   lastTool, trace>>

\* await ws.send_json(payload): sent, or the send raises
WsSend(payload) ==
    \/ /\ out' = <<payload>>
       /\ pc' = "recv"
       /\ UNCHANGED <<exc, sandbox>>
    \/ /\ exc' = "SendError"
       /\ out' = out
       /\ WsFinally

WsFirstCall ==
    /\ app = "ws" /\ pc = "call1"
    /\ modelCalls' = modelCalls + 1
    /\ \/ /\ exc' = "ModelError"        \* no except clause matches: finally
          /\ WsFinally
          /\ UNCHANGED <<messages, tool_calls, k, out, trace>>
       \/ \E t \in Texts :
          /\ messages' = Append(messages, AssistantMsg(t))
          /\ trace' = Append(trace, Event("text"))
          /\ WsSend([reply |-> t])
          /\ UNCHANGED <<tool_calls, k>>
       \/ \E n \in CallCounts(trace) :
          /\ tool_calls' = CallIds(Len(messages), n)
          /\ messages' = Append(messages, AssistantCallMsg(CallIds(Len(messages), n)))
          /\ trace' = Append(trace, ToolsEvent(n))
          /\ k' = 0
          /\ pc' = "tools"
          /\ UNCHANGED <<exc, out, sandbox>>
    /\ UNCHANGED runtimeVars
    /\ UNCHANGED toggleVars
    /\ UNCHANGED <<app, max_consecutive_function_calls_allowed, i, available,
                   turn, lastTool>>

\* one iteration of "for tool_call in assistant_msg.tool_calls": the exception
\* that leaves the loop, else the tool message's content
WsToolResult(name, args, outcome) ==
    IF args = "malformed" THEN "ArgsError"            \* json.loads raises
    ELSE IF name \notin SandboxTools THEN "unknown"   \* f"Error: Unknown tool {fn_name}"
    ELSE IF args = "wrong_keys" THEN "ArgsError"      \* tools_exec[fn_name](**fn_args)
    ELSE IF outcome = "raises" THEN "err" ELSE "ok"   \* except: return f"Error ...: {e}"

WsToolStep ==
    /\ app = "ws" /\ pc = "tools" /\ k < Len(tool_calls)
    /\ \E name \in SandboxTools \cup {UnknownTool}, args \in ArgKinds, outcome \in Outcomes :
         LET r == WsToolResult(name, args, outcome) IN
         /\ lastTool' = ToolRec(tool_calls[k + 1], name, args, outcome)
         /\ IF r \in Exceptions
            THEN /\ exc' = r
                 /\ WsFinally
                 /\ UNCHANGED <<messages, k>>
            ELSE /\ messages' = Append(messages, ToolMsg(tool_calls[k + 1], r))
                 /\ k' = k + 1
                 /\ pc' = IF k + 1 = Len(tool_calls) THEN "call2" ELSE "tools"
                 /\ UNCHANGED <<exc, sandbox>>
    /\ UNCHANGED runtimeVars
    /\ UNCHANGED toggleVars
    /\ UNCHANGED <<app, max_consecutive_function_calls_allowed, i, tool_calls,
                   available, turn, modelCalls, out, trace>>

WsFollowup ==
    /\ app = "ws" /\ pc = "call2"
    /\ modelCalls' = modelCalls + 1
    /\ lastTool' = NoTool
    /\ \/ /\ exc' = "ModelError"
          /\ WsFinally
          /\ UNCHANGED <<messages, out, trace>>
       \/ \E t \in Texts :
          /\ messages' = Append(messages, AssistantMsg(t))
          /\ trace' = Append(trace, Event("text"))
          /\ WsSend([reply |-> t])
    /\ UNCHANGED runtimeVars
    /\ UNCHANGED toggleVars
    /\ UNCHANGED <<app, max_consecutive_function_calls_allowed, i, tool_calls,
                   k, available, turn>>

WsNext ==
    \/ WsConnect
    \/ WsReceive
    \/ WsDisconnect
    \/ WsFirstCall
    \/ WsToolStep
    \/ WsFollowup

\* ---------------------------------------------------------------- run_agent (openai-agents-sdk)
TOOL_FUNCTIONS == {"get_current_time", "calculate", "get_weather"}

\* agent_invocation: return {"result": ..., "status": ...}
AgentEnvelope(result, status) == [result |-> result, status |-> status]

\* agent_invocation ... run_agent up to the first model call
AgentInvocation ==
    /\ app = "agent" /\ pc = "idle" /\ turn < MaxTurns
    /\ turn' = turn + 1
    /\ modelCalls' = 0
    /\ exc' = "none"
    /\ lastTool' = NoTool
    /\ IF ~available
       THEN /\ out' = <<AgentEnvelope("simulated", "success")>>
            /\ pc' = "idle"
            /\ UNCHANGED <<messages, trace>>
       ELSE /\ \E p \in Prompts : messages' = <<SystemMsg, UserMsg(p)>>
            /\ out' = <<>>
            /\ trace' = Append(trace, Event("user"))
            /\ pc' = "call1"
    /\ UNCHANGED runtimeVars
    /\ UNCHANGED toggleVars
    /\ UNCHANGED <<app, max_consecutive_function_calls_allowed, i, tool_calls,
                   k, sandbox, available>>

\* except Exception: raise, caught by agent_invocation
AgentRaise(e) ==
    /\ exc' = e
    /\ out' = <<AgentEnvelope("error_msg", "error")>>
    /\ pc' = "idle"

AgentFirstCall ==
    /\ app = "agent" /\ pc = "call1"
    /\ modelCalls' = modelCalls + 1
    /\ \/ /\ AgentRaise("ModelError")
          /\ UNCHANGED <<messages, tool_calls, k, trace>>
       \/ \E t \in Texts :
          /\ out' = <<AgentEnvelope(t, "success")>>
          /\ trace' = Append(trace, Event("text"))
          /\ pc' = "idle"
          /\ UNCHANGED <<messages, tool_calls, k, exc>>
       \/ \E n \in CallCounts(trace) :
          /\ tool_calls' = CallIds(Len(messages), n)
          /\ messages' = Append(messages, AssistantCallMsg(CallIds(Len(messages), n)))
          /\ trace' = Append(trace, ToolsEvent(n))
          /\ k' = 0
          /\ pc' = "tools"
          /\ UNCHANGED <<exc, out>>
    /\ UNCHANGED runtimeVars
    /\ UNCHANGED toggleVars
    /\ UNCHANGED <<app, max_consecutive_function_calls_allowed, i, sandbox,
                   available, turn, lastTool>>

\* one iteration of "for tool_call in response_message.tool_calls"
AgentToolResult(name, args, outcome) ==
    IF args = "malformed" THEN "ArgsError"                   \* eval raises
    ELSE IF name \notin TOOL_FUNCTIONS THEN "UnknownToolError"   \* KeyError
    ELSE IF args = "wrong_keys" THEN "ArgsError"             \* fn(**function_args)
    ELSE IF name = "calculate" /\ outcome = "raises" THEN "err"  \* "Calculation error"
    ELSE "ok"

AgentToolStep ==
    /\ app = "agent" /\ pc = "tools" /\ k < Len(tool_calls)
    /\ \E name \in TOOL_FUNCTIONS \cup {UnknownTool}, args \in ArgKinds, outcome \in Outcomes :
         LET r == AgentToolResult(name, args, outcome) IN
         /\ lastTool' = ToolRec(tool_calls[k + 1], name, args, outcome)
         /\ IF r \in Exceptions
            THEN /\ AgentRaise(r)
                 /\ UNCHANGED <<messages, k>>
            ELSE /\ messages' = Append(messages, ToolMsg(tool_calls[k + 1], r))
                 /\ k' = k + 1
                 /\ pc' = IF k + 1 = Len(tool_calls) THEN "call2" ELSE "tools"
                 /\ UNCHANGED <<exc, out>>
    /\ UNCHANGED runtimeVars
    /\ UNCHANGED toggleVars
    /\ UNCHANGED <<app, max_consecutive_function_calls_allowed, i, tool_calls,
                   sandbox, available, turn, modelCalls, trace>>

AgentFollowup ==
    /\ app = "agent" /\ pc = "call2"
    /\ modelCalls' = modelCalls + 1
    /\ lastTool' = NoTool
    /\ \/ /\ AgentRaise("ModelError")
          /\ trace' = trace
       \/ \E t \in Texts :
          /\ out' = <<AgentEnvelope(t, "success")>>
          /\ trace' = Append(trace, Event("text"))
          /\ pc' = "idle"
          /\ exc' = exc
    /\ UNCHANGED runtimeVars
    /\ UNCHANGED toggleVars
    /\ UNCHANGED <<app, messages, max_consecutive_function_calls_allowed, i,
                   tool_calls, k, sandbox, available, turn>>

AgentNext ==
    \/ AgentInvocation
    \/ AgentFirstCall
    \/ AgentToolStep
    \/ AgentFollowup

\* ---------------------------------------------------------------- autogen and langgraph apps
\* Text is a sequence of characters; "_" is a whitespace character.
Empty == <<>>
Fragments == {<<"x">>, <<"_">>, Empty}
\* request.get("prompt"): the prompt of the t-th invocation, t times "p"
PromptText(t) == [j \in 1..t |-> "p"]
ErrorText == <<"e">>            \* str(e)
SimulatedText == <<"s">>        \* "(Simulated response) AutoGen not installed ..."
NoResponseText == <<"n">>       \* "No response generated"
ReprText == <<"r">>             \* str(response_message)
DefaultText == <<"d">>          \* "I've completed the search and gathered information. ..."

\* content.strip()
Strip(text) == SelectSeq(text, LAMBDA c : c # "_")

HistoryMsg(role, content) == [role |-> role, content |-> content]

ContentEvent(text) == [chunk |-> text, type |-> "content"]
EndEvent == [chunk |-> Empty, type |-> "end"]
\* the error message travels under the key "chunk"
ErrorEventAsChunk(text) == [chunk |-> text, type |-> "error"]
ErrorEvent(text) == [error |-> text, type |-> "error"]
ResultEnvelope(text) == [result |-> text]
ErrorEnvelope(text, kind) == [error |-> text, error_type |-> kind]

\* the locals of an invocation: of agent_invocation and of the handler or
\* generator it started
Locals ==
    [pc |-> pc, streaming |-> streaming, prompt |-> prompt,
     accumulated_content |-> accumulated_content, chunks |-> chunks,
     messages |-> messages, out |-> out, modelCalls |-> modelCalls, exc |-> exc]

\* no invocation
IdleLocals ==
    [pc |-> "idle", streaming |-> FALSE, prompt |-> Empty,
     accumulated_content |-> Empty, chunks |-> 0,
     messages |-> <<>>, out |-> <<>>, modelCalls |-> 0, exc |-> "none"]

\* TextMessage(content=msg["content"], source=msg["role"])
TextMessage(msg) == [content |-> msg.content, source |-> msg.role]

\* autogen: the history converted to the agent's message format
AutogenMessages(history) == [j \in 1..Len(history) |-> TextMessage(history[j])]

\* langgraph: tmp_msg = {"messages": list(conversation_history)}
LanggraphMessages(history) == [j \in 1..Len(history) |-> history[j]]

\* every invocation starts a history of its own
RuntimeInvocationFresh(a) ==
    /\ app = a /\ pc = "idle" /\ turn < MaxTurns
    /\ turn' = turn + 1
    /\ conversation_history' = <<HistoryMsg("user", PromptText(turn + 1))>>
    /\ accumulated_content' = Empty
    /\ chunks' = 0
    /\ modelCalls' = 0
    /\ exc' = "none"
    /\ prompt' = PromptText(turn + 1)
    /\ UNCHANGED toolVars
    /\ UNCHANGED <<app, available, suspended>>
    /\ UNCHANGED toggleVars

\* agent_invocation: conversation_history.append(user), then the handler is chosen
RuntimeInvocation(a) ==
    /\ app = a /\ pc = "idle" /\ turn < MaxTurns
    /\ turn' = turn + 1
    /\ conversation_history' =
           Append(conversation_history, HistoryMsg("user", PromptText(turn + 1)))
    /\ accumulated_content' = Empty
    /\ chunks' = 0
    /\ modelCalls' = 0
    /\ exc' = "none"
    /\ prompt' = PromptText(turn + 1)
    /\ UNCHANGED toolVars
    /\ UNCHANGED <<app, available, suspended>>
    /\ UNCHANGED toggleVars

\* autogen: return _handle_streaming() / return await _handle_non_streaming()
AutogenInvocation ==
    /\ RuntimeInvocation("autogen")
    /\ \E st \in BOOLEAN :
         /\ streaming' = st
         /\ pc' = IF st THEN "gen" ELSE "handle"
         \* _handle_non_streaming runs up to "await agent.on_messages(messages, ...)"
         /\ messages' = IF ~st /\ available
                        THEN AutogenMessages(conversation_history')
                        ELSE messages
    /\ out' = <<>>
    /\ trace' = Append(trace, Event("user"))

\* langgraph: the LLM and the graph are built inside the entrypoint's try
LanggraphInvocation ==
    /\ RuntimeInvocation("langgraph")
    /\ messages' = LanggraphMessages(conversation_history')
    /\ \E st \in BOOLEAN :
         /\ streaming' = st
         /\ \/ /\ pc' = IF st THEN "gen" ELSE "handle"
               /\ out' = <<>>
               /\ trace' = Append(trace, Event("user"))
            \/ /\ pc' = "idle"          \* except Exception as outer_error
               /\ out' = <<ErrorEnvelope(ErrorText, "SetupError")>>
               /\ trace' = trace \o <<Event("user"), Event("setup_fail")>>

\* what the agent / graph call of _handle_non_streaming gives back
NonStreamingOutcomes == {"raises", "none", "no_content", "content"}

\* autogen _handle_non_streaming: the response text, given the outcome of
\* agent.on_messages and the chat message's content
AutogenResponse(outcome, content) ==
    IF outcome = "none" THEN NoResponseText
    ELSE IF outcome = "no_content" THEN ReprText
    ELSE content

\* langgraph _handle_non_streaming: result_content
LanggraphResultContent(outcome, content) ==
    IF outcome = "content" /\ content # Empty THEN content ELSE DefaultText

\* what the agent / graph call gave back, as recorded in trace
ResponseEvent(outcome, content) ==
    [ev |-> "text", n |-> 0, outcome |-> outcome, content |-> content]

\* the result is returned, but not saved to the history
ReturnResultOnly(text) ==
    /\ out' = <<ResultEnvelope(text)>>
    /\ UNCHANGED conversation_history

\* the assistant message is saved twice
CommitResultTwice(text) ==
    /\ conversation_history' =
           conversation_history \o <<HistoryMsg("assistant", text),
                                     HistoryMsg("assistant", text)>>
    /\ out' = <<ResultEnvelope(text)>>

\* conversation_history.append(assistant); return {"result": ...}
CommitResult(text) ==
    /\ conversation_history' =
           Append(conversation_history, HistoryMsg("assistant", text))
    /\ out' = <<ResultEnvelope(text)>>

\* the failed turn's user message is taken back
ReturnErrorRollback ==
    /\ out' = <<ErrorEnvelope(ErrorText, "ModelError")>>
    /\ trace' = Append(trace, Event("fail"))
    /\ conversation_history' =
           SubSeq(conversation_history, 1, Len(conversation_history) - 1)

\* except Exception as e: return {"error": ..., "error_type": ...}
ReturnError ==
    /\ out' = <<ErrorEnvelope(ErrorText, "ModelError")>>
    /\ trace' = Append(trace, Event("fail"))
    /\ UNCHANGED conversation_history

AutogenHandleNonStreaming ==
    /\ app = "autogen" /\ pc = "handle"
    /\ IF ~available
       THEN /\ out' = <<ResultEnvelope(SimulatedText)>>
            /\ trace' = Append(trace, Event("text"))
            /\ UNCHANGED <<conversation_history, modelCalls>>
       ELSE /\ modelCalls' = modelCalls + 1
            /\ \E outcome \in NonStreamingOutcomes, content \in Fragments :
                 IF outcome = "raises"
                 THEN ReturnError
                 ELSE /\ CommitResult(AutogenResponse(outcome, content))
                      /\ trace' = Append(trace, ResponseEvent(outcome, content))
    /\ pc' = "idle"
    /\ UNCHANGED loopVars
    /\ UNCHANGED <<prompt, suspended>>
    /\ UNCHANGED toggleVars
    /\ UNCHANGED <<app, available, turn, exc, streaming,
                   accumulated_content, chunks>>

LanggraphHandleNonStreaming ==
    /\ app = "langgraph" /\ pc = "handle"
    /\ modelCalls' = modelCalls + 1
    /\ \E outcome \in NonStreamingOutcomes \ {"none"}, content \in Fragments :
         IF outcome = "raises"
         THEN ReturnError
         ELSE /\ CommitResult(LanggraphResultContent(outcome, content))
              /\ trace' = Append(trace, ResponseEvent(outcome, content))
    /\ pc' = "idle"
    /\ UNCHANGED loopVars
    /\ UNCHANGED <<prompt, suspended>>
    /\ UNCHANGED toggleVars
    /\ UNCHANGED <<app, available, turn, exc, streaming,
                   accumulated_content, chunks>>

\* an item of the model stream with its content, as recorded in trace
ItemEvent(content) == [ev |-> "item", n |-> 0, content |-> content]

\* stream items delivered so far in this process: at most MaxChunks
Streamed(tr) == Cardinality({j \in 1..Len(tr) : tr[j].ev = "item"})

\* the test that decides whether a stream item is forwarded
\* autogen:   if content and isinstance(content, str) and content.strip()
\* langgraph: if hasattr(chunk, 'content') and chunk.content
Forwarded(a, content) ==
    IF a = "autogen" THEN content # Empty /\ Strip(content) # Empty
    ELSE content # Empty

\* the assistant message is written over the last message of the history
CommitAccumulatedOver(history, acc) ==
    IF acc # Empty
    THEN [history EXCEPT ![Len(history)] = HistoryMsg("assistant", acc)]
    ELSE history

\* if accumulated_content: conversation_history.append(assistant)
CommitAccumulated(history, acc) ==
    IF acc # Empty THEN Append(history, HistoryMsg("assistant", acc)) ELSE history

\* autogen, AUTOGEN_AVAILABLE false: the two yields of the simulated stream
StreamSimulated ==
    /\ app = "autogen" /\ ~available
    /\ \/ /\ pc = "gen"
          /\ out' = Append(out, ContentEvent(SimulatedText))
          /\ pc' = "gen_sim"
       \/ /\ pc = "gen_sim"
          /\ out' = Append(out, EndEvent)
          /\ pc' = "idle"
    /\ UNCHANGED loopVars
    /\ UNCHANGED <<prompt, suspended>>
    /\ UNCHANGED toggleVars
    /\ UNCHANGED <<app, available, turn, modelCalls, exc, trace,
                   conversation_history, streaming, accumulated_content, chunks>>

\* the generator is consumed for the first time: its body runs up to the call
\* of agent.on_messages_stream(messages, ...) / graph.stream(tmp_msg, ...)
StreamStart ==
    /\ app \in {"autogen", "langgraph"} /\ available /\ pc = "gen"
    /\ messages' = IF app = "autogen"
                   THEN AutogenMessages(conversation_history)
                   ELSE messages
    /\ modelCalls' = modelCalls + 1
    /\ pc' = "stream"
    /\ UNCHANGED toolVars
    /\ UNCHANGED <<prompt, suspended>>
    /\ UNCHANGED toggleVars
    /\ UNCHANGED <<app, available, turn, exc, out, trace,
                   conversation_history, streaming, accumulated_content, chunks>>

\* the text accumulated so far is saved each time a fragment is forwarded
StreamItemCommits ==
    /\ app \in {"autogen", "langgraph"} /\ available /\ pc = "stream"
    /\ Streamed(trace) < MaxChunks
    /\ chunks' = chunks + 1
    /\ \E content \in Fragments :
         /\ trace' = Append(trace, ItemEvent(content))
         /\ IF Forwarded(app, content)
            THEN /\ accumulated_content' = accumulated_content \o content
                 /\ out' = Append(out, ContentEvent(content))
                 /\ conversation_history' =
                        CommitAccumulated(conversation_history,
                                          accumulated_content \o content)
            ELSE UNCHANGED <<accumulated_content, out, conversation_history>>
    /\ UNCHANGED loopVars
    /\ UNCHANGED <<prompt, suspended>>
    /\ UNCHANGED toggleVars
    /\ UNCHANGED <<app, pc, available, turn, modelCalls, exc, streaming>>

\* the model stream delivers one more item
StreamItem ==
    /\ app \in {"autogen", "langgraph"} /\ available /\ pc = "stream"
    /\ Streamed(trace) < MaxChunks
    /\ chunks' = chunks + 1
    /\ \E content \in Fragments :
         /\ trace' = Append(trace, ItemEvent(content))
         /\ IF Forwarded(app, content)
            THEN /\ accumulated_content' = accumulated_content \o content
                 /\ out' = Append(out, ContentEvent(content))
            ELSE UNCHANGED <<accumulated_content, out>>
    /\ UNCHANGED loopVars
    /\ UNCHANGED <<prompt, suspended>>
    /\ UNCHANGED toggleVars
    /\ UNCHANGED <<app, pc, available, turn, modelCalls, exc,
                   conversation_history, streaming>>

\* the end event is yielded, but the generator goes on reading the stream
StreamEndStaysOpen ==
    /\ app \in {"autogen", "langgraph"} /\ available /\ pc = "stream"
    /\ conversation_history' =
           CommitAccumulated(conversation_history, accumulated_content)
    /\ out' = Append(out, EndEvent)
    /\ trace' = Append(trace, Event("text"))
    /\ UNCHANGED loopVars
    /\ UNCHANGED <<prompt, suspended>>
    /\ UNCHANGED toggleVars
    /\ UNCHANGED <<app, pc, available, turn, modelCalls, exc, streaming,
                   accumulated_content, chunks>>

\* the model stream is exhausted
StreamEnd ==
    /\ app \in {"autogen", "langgraph"} /\ available /\ pc = "stream"
    /\ conversation_history' =
           CommitAccumulated(conversation_history, accumulated_content)
    /\ out' = Append(out, EndEvent)
    /\ trace' = Append(trace, Event("text"))
    /\ pc' = "idle"
    /\ UNCHANGED loopVars
    /\ UNCHANGED <<prompt, suspended>>
    /\ UNCHANGED toggleVars
    /\ UNCHANGED <<app, available, turn, modelCalls, exc, streaming,
                   accumulated_content, chunks>>

\* what was accumulated is saved before the error event is yielded
StreamRaisesCommits ==
    /\ app \in {"autogen", "langgraph"} /\ available
    /\ pc \in {"gen", "stream"}
    /\ conversation_history' =
           CommitAccumulated(conversation_history, accumulated_content)
    /\ out' = Append(out, ErrorEvent(ErrorText))
    /\ trace' = Append(trace, Event("fail"))
    /\ pc' = "idle"
    /\ UNCHANGED loopVars
    /\ UNCHANGED <<prompt, suspended>>
    /\ UNCHANGED toggleVars
    /\ UNCHANGED <<app, available, turn, modelCalls, exc, streaming,
                   accumulated_content, chunks>>

\* the exception is logged and raised again
StreamRaisesAgain ==
    /\ app \in {"autogen", "langgraph"} /\ available
    /\ pc \in {"gen", "stream"}
    /\ exc' = "ModelError"
    /\ trace' = Append(trace, Event("fail"))
    /\ pc' = "idle"
    /\ UNCHANGED loopVars
    /\ UNCHANGED <<prompt, suspended>>
    /\ UNCHANGED toggleVars
    /\ UNCHANGED <<app, available, turn, modelCalls, out,
                   conversation_history, streaming, accumulated_content, chunks>>

\* creating the agent, the call of the agent / graph or its stream raises:
\* except Exception as e: yield the error event
StreamRaises ==
    /\ app \in {"autogen", "langgraph"} /\ available
    /\ pc \in {"gen", "stream"}
    /\ out' = Append(out, ErrorEvent(ErrorText))
    /\ trace' = Append(trace, Event("fail"))
    /\ pc' = "idle"
    /\ UNCHANGED loopVars
    /\ UNCHANGED <<prompt, suspended>>
    /\ UNCHANGED toggleVars
    /\ UNCHANGED <<app, available, turn, modelCalls, exc,
                   conversation_history, streaming, accumulated_content, chunks>>

\* the consumer drops the generator before its terminal event (never iterated,
\* closed at a yield, or cancelled at an await): GeneratorExit / CancelledError
\* pass `except Exception`, so the generator ends without running another
\* statement of its body
StreamAbandoned ==
    /\ app \in {"autogen", "langgraph"} /\ streaming
    /\ pc \in {"gen", "gen_sim", "stream"}
    /\ trace' = Append(trace, Event("abandon"))
    /\ pc' = "idle"
    /\ UNCHANGED loopVars
    /\ UNCHANGED <<prompt, suspended>>
    /\ UNCHANGED toggleVars
    /\ UNCHANGED <<app, available, turn, modelCalls, exc, out,
                   conversation_history, streaming, accumulated_content, chunks>>

\* the server turns to another request while an invocation is in flight (its
\* coroutine awaits the agent, its generator waits to be consumed), or goes
\* back to the invocation it had left: the running invocation's locals and
\* the suspended ones change places
Switch ==
    /\ app \in {"autogen", "langgraph"}
    /\ pc # "idle" \/ suspended.pc # "idle"
    /\ suspended' = IF pc = "idle" THEN IdleLocals ELSE Locals
    /\ pc' = suspended.pc
    /\ streaming' = suspended.streaming
    /\ prompt' = suspended.prompt
    /\ accumulated_content' = suspended.accumulated_content
    /\ chunks' = suspended.chunks
    /\ messages' = suspended.messages
    /\ out' = suspended.out
    /\ modelCalls' = suspended.modelCalls
    /\ exc' = suspended.exc
    /\ UNCHANGED toolVars
    /\ UNCHANGED toggleVars
    /\ UNCHANGED <<app, available, turn, trace, conversation_history>>

RuntimeNext ==
    \/ AutogenInvocation
    \/ LanggraphInvocation
    \/ AutogenHandleNonStreaming
    \/ LanggraphHandleNonStreaming
    \/ StreamSimulated
    \/ StreamStart
    \/ StreamItem
    \/ StreamEnd
    \/ StreamRaises
    \/ StreamAbandoned

\* ---------------------------------------------------------------- system
InitPc(a) == IF a = "eda" THEN "prompt" ELSE IF a = "ws" THEN "recv" ELSE "idle"

Init ==
    /\ app \in Apps
    /\ pc = InitPc(app)
    /\ messages = IF app = "eda" THEN <<SystemMsg>> ELSE <<>>
    /\ max_consecutive_function_calls_allowed \in
           IF app = "eda" THEN 0..MaxRounds ELSE {0}
    /\ i = 0
    /\ tool_calls = <<>>
    /\ k = 0
    /\ sandbox = IF app = "ws" THEN "alive"
                 ELSE IF app = "toggle" THEN NoSandbox ELSE "none"
    /\ available \in IF app \in {"agent", "autogen"} THEN BOOLEAN ELSE {TRUE}
    /\ turn = 0
    /\ modelCalls = 0
    /\ exc = "none"
    /\ out = <<>>
    /\ lastTool = NoTool
    /\ trace = <<>>
    /\ conversation_history = <<>>
    /\ streaming = FALSE
    /\ accumulated_content = <<>>
    /\ chunks = 0
    /\ prompt = Empty
    /\ suspended = IdleLocals
    /\ sandbox_timer = NoThread
    /\ threads = <<>>
    /\ remote = {}
    /\ created = 0
    /\ killedBy = {}

Next == EdaNext \/ GradioNext \/ ToggleNext \/ WsNext \/ AgentNext \/ RuntimeNext

Spec == Init /\ [][Next]_vars

\* the same applications behind a server that does not wait for an
\* invocation to finish before it serves the next request
NextConcurrent == Next \/ Switch

SpecConcurrent == Init /\ [][NextConcurrent]_vars

\* ================================================================ properties
Last(seq) == seq[Len(seq)]

\* the events of the current turn: those after the last prompt
RECURSIVE ThisTurn(_)
ThisTurn(tr) ==
    IF tr = <<>> \/ Last(tr).ev = "user" THEN <<>>
    ELSE Append(ThisTurn(SubSeq(tr, 1, Len(tr) - 1)), Last(tr))

AllTools(evs) == \A j \in 1..Len(evs) : evs[j].ev = "tools"

ToolMsgsFor(id) == {j \in 1..Len(messages) :
                      messages[j].role = "tool" /\ messages[j].tool_call_id = id}

\* the last tool call has been dealt with (its operation is not pending)
LastToolDone == lastTool # NoTool /\ lastTool.outcome # "pending"

\* ---------------------------------------------------------------- C1
\* C1: in eda_chat with a limit M >= 1, a turn never makes more than M model
\* calls nor more than M tool rounds, and a turn in which every response
\* requested tools ends, unless a model call or a tool raised first, in the
\* round-limit failure after exactly M model calls and exactly M tool rounds.
RoundLimitEnforcement ==
    (app = "eda" /\ max_consecutive_function_calls_allowed >= 1) =>
        /\ modelCalls <= max_consecutive_function_calls_allowed
        /\ i <= max_consecutive_function_calls_allowed
        /\ (exc = "RoundLimit" =>
              /\ pc = "crashed"
              /\ modelCalls = max_consecutive_function_calls_allowed
              /\ i = max_consecutive_function_calls_allowed
              /\ Len(ThisTurn(trace)) = max_consecutive_function_calls_allowed
              /\ AllTools(ThisTurn(trace)))
        /\ (/\ pc \in {"prompt", "quit", "crashed"}
            /\ ThisTurn(trace) # <<>>
            /\ AllTools(ThisTurn(trace))
            /\ exc \notin Exceptions \cup {"ModelError"}
            => exc = "RoundLimit")

RoundLimitHit ==
    /\ app = "eda" /\ exc = "RoundLimit"
    /\ max_consecutive_function_calls_allowed = 2
    /\ modelCalls = 2 /\ i = 2

\* ---------------------------------------------------------------- C2
\* C2: in eda_chat a response without tool calls always finalizes the turn
\* with its text, and the round-limit failure is taken only from a model call
\* made at round == max_rounds whose response still requests tools (so the
\* failing turn has made max_rounds + 1 model calls), also for max_rounds = 0.
RoundLimitOnlyFromModelCall ==
    app = "eda" =>
        /\ (trace # <<>> /\ Last(trace).ev = "text" /\ pc \in {"prompt", "quit"} =>
              /\ out # <<>>
              /\ Last(messages) = AssistantMsg(out[1].reply))
        /\ (exc = "RoundLimit" =>
              /\ modelCalls = max_consecutive_function_calls_allowed + 1
              /\ trace # <<>> /\ Last(trace).ev = "tools")

\* ---------------------------------------------------------------- C3
\* C3: in eda_chat, when the operation of a requested registered tool raises,
\* no exception leaves the tool-call loop, a tool message with the error
\* description and the call's id is appended, and the turn goes on.
EdaToolErrorIsolated ==
    (/\ app = "eda"
     /\ lastTool.name \in EdaTools
     /\ lastTool.args = "ok"
     /\ lastTool.outcome = "raises") =>
        /\ exc = "none"
        /\ pc \in {"tools", "loop"}
        /\ \E j \in ToolMsgsFor(lastTool.id) : messages[j].content = "err"

\* ---------------------------------------------------------------- C4
\* C4: in chat_fn and websocket_endpoint, for every requested tool call with
\* well-formed arguments, whether the sandbox operation succeeds, raises, the
\* sandbox is off or is gone when it is used: exactly one tool message with
\* the call's id is appended, no exception leaves the tool loop, and after the
\* last call of the response the handler is at the follow-up model call.
ToolContents == {"ok", "err", "off", "unknown"}

SandboxToolErrorIsolated ==
    (/\ app \in {"gradio", "ws"}
     /\ LastToolDone
     /\ lastTool.args = "ok") =>
        /\ exc = "none"
        /\ Cardinality(ToolMsgsFor(lastTool.id)) = 1
        /\ \A j \in ToolMsgsFor(lastTool.id) : messages[j].content \in ToolContents
        /\ Last(messages).tool_call_id = lastTool.id
        /\ pc = IF k = Len(tool_calls) THEN "call2" ELSE "tools"

SandboxGoneAnswered ==
    /\ app = "gradio"
    /\ lastTool.outcome = "sandbox_gone"
    /\ pc = "call2"
    /\ Last(messages) = ToolMsg(lastTool.id, "err")

\* ---------------------------------------------------------------- C5
\* C5: in every tool-call loop (eda_chat, chat_fn, websocket_endpoint,
\* run_agent) a request for a tool that is not registered raises nothing,
\* appends a tool message with the "unknown tool" text and the request's id,
\* and the loop goes on.
UnknownToolAnswered ==
    (lastTool.name = UnknownTool /\ lastTool.args # "malformed") =>
        /\ exc = "none"
        /\ pc \in {"tools", "loop", "call2"}
        /\ \E j \in ToolMsgsFor(lastTool.id) : messages[j].content = "unknown"

\* ---------------------------------------------------------------- C6
\* C6: after a turn of eda_chat failed on the round limit the chat session is
\* still running: the history is kept and the next prompt is read.
SessionSurvivesRoundLimit ==
    (app = "eda" /\ exc = "RoundLimit") => pc = "prompt"

\* ---------------------------------------------------------------- C7
IsError(v) == "error" \in DOMAIN v

Errors(seq) == {j \in 1..Len(seq) : IsError(seq[j])}

\* C7: in the autogen and langgraph entrypoints no exception leaves the
\* entrypoint or the stream generator; a turn whose model / agent call raised
\* has handed out exactly one error value, as its last output: the envelope
\* {error, error_type} in non-streaming mode, an event of type "error" in
\* streaming mode; the history still ends with that turn's user message and
\* the entrypoint is ready for the next invocation.
ModelFailureSurfacedOnce ==
    app \in {"autogen", "langgraph"} =>
        /\ exc = "none"
        /\ Cardinality(Errors(out)) <= 1
        /\ (trace # <<>> /\ Last(trace).ev = "fail" =>
              /\ pc = "idle"
              /\ Cardinality(Errors(out)) = 1
              /\ IsError(Last(out))
              /\ IF streaming
                 THEN DOMAIN Last(out) = {"error", "type"} /\ Last(out).type = "error"
                 ELSE DOMAIN Last(out) = {"error", "error_type"} /\ Len(out) = 1
              /\ Len(conversation_history) >= turn
              /\ Last(conversation_history).role = "user")

\* a turn that succeeded after a turn whose model call failed
TurnAfterFailedTurn ==
    /\ app \in {"autogen", "langgraph"}
    /\ \E j \in 1..Len(trace) : trace[j].ev = "fail"
    /\ Last(trace).ev = "text"
    /\ turn = 2 /\ pc = "idle"
    /\ Len(conversation_history) = 3
    /\ Last(conversation_history).role = "assistant"

\* ---------------------------------------------------------------- C8
\* C8: in websocket_endpoint and chat_fn a failed model call or unparseable
\* tool-call arguments are handed to the caller as an error value and do not
\* end the session: connection, sandbox and history stay usable.
TurnFailureKeepsSession ==
    (app \in {"ws", "gradio"} /\ exc \in {"ModelError", "ArgsError"}) =>
        /\ pc \notin {"closed"}
        /\ sandbox # "killed"
        /\ out # <<>> /\ IsError(Last(out))

\* ---------------------------------------------------------------- C9
Kind(m) == IF m.role = "assistant" /\ m.calls # <<>> THEN "tool_calls" ELSE m.role

Kinds(msgs) == [j \in 1..Len(msgs) |-> Kind(msgs[j])]

\* what the turns recorded in tr add to the history: one user message, per
\* tool round one tool-call message and one tool message per requested call,
\* one final assistant message
RECURSIVE ExpectedKinds(_)
ExpectedKinds(tr) ==
    IF tr = <<>> THEN <<>>
    ELSE LET e == tr[1] IN
         (IF e.ev = "user" THEN <<"user">>
          ELSE IF e.ev = "tools" THEN <<"tool_calls">> \o [j \in 1..e.n |-> "tool"]
          ELSE IF e.ev = "text" THEN <<"assistant">>
          ELSE <<>>) \o ExpectedKinds(Tail(tr))

\* C9: whenever eda_chat is between turns, the messages added to the history
\* since the system prompt are, in order, for every turn: its user message,
\* for every tool round the assistant tool-call message and one tool message
\* per requested call, and its final assistant message.
HistoryAppendOrder ==
    (app = "eda" /\ pc \in {"prompt", "quit"}) =>
        /\ Kinds(Tail(messages)) = ExpectedKinds(trace)
        /\ Len(messages) = 1 + Len(ExpectedKinds(trace))

TwoTurnsWithToolRounds ==
    /\ app = "eda" /\ pc = "prompt" /\ turn = 2
    /\ \E j \in 1..Len(trace) : trace[j].ev = "tools" /\ trace[j].n = 2
    /\ Len(messages) >= 8

\* ---------------------------------------------------------------- C10
Succeeded(seq) ==
    /\ seq # <<>>
    /\ \/ "result" \in DOMAIN Last(seq)
       \/ ("type" \in DOMAIN Last(seq) /\ Last(seq).type = "end")

\* C10: every successful turn of the autogen and langgraph entrypoints (a
\* returned {result}, or a stream closed by an end event) has appended one
\* user message and, at its end, one assistant message, whatever the model
\* produced.
SuccessfulTurnCommitsPair ==
    (app \in {"autogen", "langgraph"} /\ pc = "idle" /\ Succeeded(out)) =>
        /\ Len(conversation_history) >= 2
        /\ Last(conversation_history).role = "assistant"
        /\ conversation_history[Len(conversation_history) - 1].role = "user"

\* ---------------------------------------------------------------- C11
\* a stream exists once agent_invocation has returned the generator
IsStream ==
    /\ app \in {"autogen", "langgraph"} /\ streaming /\ turn > 0
    /\ ~(trace # <<>> /\ Last(trace).ev \in {"setup_fail", "abandon"})

Terminals(seq) == {j \in 1..Len(seq) : seq[j].type \in {"end", "error"}}

\* C11: every stream of _handle_streaming (autogen, langgraph, and the
\* simulated autogen stream) carries content events only until it is closed;
\* it is closed by exactly one terminal event, of type end or error, which is
\* its last event: nothing follows a terminal event and a stream never has
\* both an end and an error event.
StreamClosedOnce ==
    IsStream =>
        /\ \A j \in 1..Len(out) : out[j].type \in {"content", "end", "error"}
        /\ Terminals(out) \subseteq {Len(out)}
        /\ (pc = "idle") = (Terminals(out) # {})

\* a stream closed by an error event after content events
StreamClosedAfterContent ==
    /\ IsStream /\ pc = "idle"
    /\ Len(out) = 3
    /\ out[1].type = "content" /\ out[2].type = "content"
    /\ out[3].type = "error"

\* ---------------------------------------------------------------- C12
\* C12: every event of a streamed response, of type content, end and error
\* alike, is an object with exactly the two keys chunk and type, with type in
\* {content, end, error}; the message of an error event is the value of chunk.
EventsHaveChunkAndType ==
    IsStream =>
        \A j \in 1..Len(out) :
            /\ DOMAIN out[j] = {"chunk", "type"}
            /\ out[j].type \in {"content", "end", "error"}

\* C12, amended: an event of type content or end has exactly the keys chunk
\* and type (a non-empty text for content, the empty text for end); an event
\* of type error has exactly the keys error and type, and its message is the
\* value of error.
EventWireShape ==
    IsStream =>
        \A j \in 1..Len(out) :
            /\ out[j].type \in {"content", "end", "error"}
            /\ out[j].type = "content" =>
                  DOMAIN out[j] = {"chunk", "type"} /\ out[j].chunk # Empty
            /\ out[j].type = "end" =>
                  DOMAIN out[j] = {"chunk", "type"} /\ out[j].chunk = Empty
            /\ out[j].type = "error" =>
                  DOMAIN out[j] = {"error", "type"} /\ out[j].error = ErrorText

\* a stream that carried one content event and then the error event
StreamWithErrorEvent ==
    /\ IsStream /\ pc = "idle"
    /\ Len(out) = 2
    /\ out[1].type = "content"
    /\ out[2].type = "error"

\* ---------------------------------------------------------------- C13
\* the fragments the model stream delivered, in arrival order
RECURSIVE Delivered(_)
Delivered(evs) ==
    IF evs = <<>> THEN <<>>
    ELSE (IF evs[1].ev = "item" THEN <<evs[1].content>> ELSE <<>>)
             \o Delivered(Tail(evs))

RECURSIVE Concat(_)
Concat(texts) == IF texts = <<>> THEN Empty ELSE texts[1] \o Concat(Tail(texts))

\* C13: when the model stream delivered one or more non-empty fragments
\* (whitespace-only ones included) and then ended normally, the events are
\* one content event per fragment, in arrival order and with the fragment as
\* chunk, followed by the end event, and the last message of
\* conversation_history is the assistant message whose content is the
\* fragments' concatenation.
StreamingAccumulationEquivalence ==
    LET frags == Delivered(ThisTurn(trace)) IN
    (/\ IsStream /\ available /\ pc = "idle"
     /\ Last(trace).ev = "text"
     /\ frags # <<>>
     /\ \A j \in 1..Len(frags) : frags[j] # Empty) =>
        /\ out = [j \in 1..Len(frags) |-> ContentEvent(frags[j])] \o <<EndEvent>>
        /\ Last(conversation_history) = HistoryMsg("assistant", Concat(frags))

\* ---------------------------------------------------------------- C14
\* a non-streaming turn in which the agent / graph returned a final message
\* with a non-empty text
ReturnedText ==
    /\ app \in {"autogen", "langgraph"} /\ available
    /\ ~streaming /\ pc = "idle" /\ turn > 0
    /\ Last(trace).ev = "text"
    /\ Last(trace).outcome = "content"
    /\ Last(trace).content # Empty

\* C14: when the model returns the final text T, a non-streaming
\* agent_invocation returns the one value {result: T} and appends, after the
\* turn's user message, one assistant message with content T: what is
\* returned and what is committed are the same text.
NonStreamingDeterminism ==
    ReturnedText =>
        LET T == Last(trace).content
            n == Len(conversation_history) IN
        /\ out = <<ResultEnvelope(T)>>
        /\ n >= 2
        /\ conversation_history[n] = HistoryMsg("assistant", T)
        /\ conversation_history[n - 1] = HistoryMsg("user", PromptText(turn))
        /\ out[1].result = conversation_history[n].content

\* the second turn returned the text "x" in non-streaming mode
SecondTurnReturnedText ==
    /\ ReturnedText /\ turn = 2
    /\ Last(trace).content = <<"x">>
    /\ Len(conversation_history) = 4

\* ---------------------------------------------------------------- C15
\* the text a non-streaming turn commits for the response recorded in e
Answer(e) ==
    IF app = "autogen" THEN AutogenResponse(e.outcome, e.content)
    ELSE LanggraphResultContent(e.outcome, e.content)

\* what the turns recorded in tr have committed, in order: t prompts were
\* seen before tr, acc is what the running stream has forwarded
RECURSIVE CommittedBy(_, _, _)
CommittedBy(tr, t, acc) ==
    IF tr = <<>> THEN <<>>
    ELSE LET e == tr[1] IN
         IF e.ev = "user"
         THEN <<HistoryMsg("user", PromptText(t + 1))>>
                  \o CommittedBy(Tail(tr), t + 1, Empty)
         ELSE IF e.ev = "item"
         THEN CommittedBy(Tail(tr), t,
                          IF Forwarded(app, e.content) THEN acc \o e.content
                          ELSE acc)
         ELSE IF e.ev = "text"
         THEN (IF "outcome" \in DOMAIN e
               THEN <<HistoryMsg("assistant", Answer(e))>>
               ELSE IF acc # Empty THEN <<HistoryMsg("assistant", acc)>>
               ELSE <<>>) \o CommittedBy(Tail(tr), t, Empty)
         ELSE CommittedBy(Tail(tr), t, Empty)

\* the inputs up to the prompt of the current turn
RECURSIVE UpToLastUser(_)
UpToLastUser(tr) ==
    IF tr = <<>> \/ Last(tr).ev = "user" THEN tr
    ELSE UpToLastUser(SubSeq(tr, 1, Len(tr) - 1))

\* role and content of every message of a message list, in order
RoleOf(m) == IF "source" \in DOMAIN m THEN m.source ELSE m.role

Plain(input) == [j \in 1..Len(input) |-> <<RoleOf(input[j]), input[j].content>>]

\* C15: with sequential invocations, the message list given to the model in
\* the k-th turn holds, in order, the prompt of every earlier turn followed
\* by the assistant answer that turn committed, and then the k-th prompt.
MultiTurnMemory ==
    (app \in {"autogen", "langgraph"} /\ available /\ modelCalls > 0) =>
        /\ Plain(messages) = Plain(CommittedBy(UpToLastUser(trace), 0, Empty))
        /\ Last(Plain(messages)) = <<"user", PromptText(turn)>>

\* the model is called in a second turn whose input holds the first turn's
\* prompt and streamed answer
SecondTurnSeesFirst ==
    /\ app \in {"autogen", "langgraph"} /\ available
    /\ modelCalls > 0 /\ turn = 2
    /\ Len(messages) = 3
    /\ messages[1].content = PromptText(1)
    /\ messages[2].content = <<"x", "_">>
    /\ messages[3].content = PromptText(2)

\* ---------------------------------------------------------------- C16
IsFailure(e) == e.ev \in {"fail", "setup_fail"}

\* the turn before the current one ended in a failure
PreviousTurnFailed ==
    LET tr == UpToLastUser(trace) IN
    Len(tr) >= 2 /\ IsFailure(tr[Len(tr) - 1])

\* C16: a turn that ends in a failure (the model / agent call raised, the
\* round limit was hit) leaves the history as it was before the turn plus
\* the messages the turn appended before it failed, its user message among
\* them; nothing is taken back, and the model input of the next turn holds
\* the failed turn's user message.
NoRollbackOnFailure ==
    /\ (app = "eda" /\ pc = "crashed" /\ exc \in {"RoundLimit", "ModelError"}) =>
          /\ Kinds(Tail(messages)) = ExpectedKinds(trace)
          /\ Cardinality({j \in 1..Len(messages) : messages[j].role = "user"})
                 = turn
    /\ (/\ app \in {"autogen", "langgraph"} /\ pc = "idle"
        /\ trace # <<>> /\ IsFailure(Last(trace))) =>
          /\ conversation_history = CommittedBy(trace, 0, Empty)
          /\ Last(conversation_history) = HistoryMsg("user", PromptText(turn))
    /\ (/\ app \in {"autogen", "langgraph"} /\ available
        /\ modelCalls > 0 /\ PreviousTurnFailed) =>
          /\ Len(messages) >= 2
          /\ Plain(messages)[Len(messages) - 1] = <<"user", PromptText(turn - 1)>>

\* the model is called in the turn after a non-streaming turn that failed
NextTurnAfterFailure ==
    /\ app \in {"autogen", "langgraph"} /\ available
    /\ modelCalls > 0 /\ turn = 2 /\ PreviousTurnFailed
    /\ trace[2].ev = "fail"
    /\ Len(messages) = 2

\* ---------------------------------------------------------------- C17
\* C17: when the model stream raises, after any number of content events,
\* the stream is closed by the error event and the turn commits no assistant
\* message: conversation_history is what it was when the turn had appended
\* its user message, and the text accumulated so far is not in it; autogen
\* and langgraph alike.
NoPartialCommit ==
    (IsStream /\ pc = "idle" /\ Last(out).type = "error") =>
        /\ \A j \in 1..(Len(out) - 1) : out[j].type = "content"
        /\ conversation_history = CommittedBy(UpToLastUser(trace), 0, Empty)
        /\ Last(conversation_history) = HistoryMsg("user", PromptText(turn))

\* the stream raised when two fragments had been forwarded and accumulated
ErrorAfterAccumulation ==
    /\ IsStream /\ pc = "idle" /\ Last(out).type = "error"
    /\ accumulated_content = <<"x", "x">>
    /\ Len(out) = 3

\* ---------------------------------------------------------------- C18
\* index of the last assistant message that carries tool calls (0: none)
LastCallMsg ==
    LET js == {j \in 1..Len(messages) : Kind(messages[j]) = "tool_calls"} IN
    IF js = {} THEN 0 ELSE CHOOSE j \in js : \A h \in js : h <= j

\* C18: in eda_chat, chat_fn and websocket_endpoint the tool calls of a round
\* are executed one after another in the order the model listed them: once a
\* call of the round has been started, the messages after the round's
\* tool-call message are the tool messages of the first k listed calls, in
\* the listed order, and the call last started is either the k-th, whose
\* tool message is the last message, or the (k+1)-th, which has no tool
\* message yet.
ToolCallOrdering ==
    (app \in {"eda", "gradio", "ws"} /\ lastTool # NoTool) =>
        LET r == LastCallMsg
            round == SubSeq(messages, r + 1, Len(messages)) IN
        /\ r > 0
        /\ messages[r].calls = tool_calls
        /\ Len(round) = k /\ k <= Len(tool_calls)
        /\ \A j \in 1..k :
              round[j].role = "tool" /\ round[j].tool_call_id = tool_calls[j]
        /\ IF ToolMsgsFor(lastTool.id) # {}
           THEN k >= 1 /\ lastTool.id = tool_calls[k]
                /\ Last(messages).tool_call_id = lastTool.id
           ELSE k < Len(tool_calls) /\ lastTool.id = tool_calls[k + 1]

\* a round of two tool calls, the first answered and the second started
SecondCallStartedAfterFirstAnswer ==
    /\ app = "gradio" /\ pc = "tool_op"
    /\ Len(tool_calls) = 2 /\ k = 1
    /\ lastTool.id = tool_calls[2]
    /\ Last(messages).tool_call_id = tool_calls[1]

\* ---------------------------------------------------------------- C19
\* C19: at most one turn is in flight against conversation_history (autogen,
\* langgraph) or the global messages (gradio_chat): no invocation appends its
\* user message while another turn, whose user message is appended, has not
\* yet appended its assistant message or handed out its terminal event.
OneTurnInFlight ==
    app \in {"autogen", "langgraph", "gradio"} =>
        ~(pc # "idle" /\ suspended.pc # "idle")

\* ---------------------------------------------------------------- C20
\* C20: in every turn of the autogen and langgraph entrypoints, streaming or
\* not, the message list given to the model is the history as it was when
\* the turn had appended its user message: it ends with this turn's own
\* prompt and holds no prompt of a later invocation.
ModelInputIsTurnSnapshot ==
    (app \in {"autogen", "langgraph"} /\ available /\ modelCalls > 0) =>
        /\ Last(Plain(messages)) = <<"user", prompt>>
        /\ \A j \in 1..Len(messages) :
              RoleOf(messages[j]) = "user" =>
                  Len(messages[j].content) <= Len(prompt)

\* ---------------------------------------------------------------- C21
\* the session whose turn is running: the sender of the last prompt
RECURSIVE CurrentSession(_)
CurrentSession(tr) ==
    IF tr = <<>> THEN 0
    ELSE IF Last(tr).ev = "user" THEN Last(tr).session
    ELSE CurrentSession(SubSeq(tr, 1, Len(tr) - 1))

PromptsOf(s) ==
    {j \in 1..Len(trace) : trace[j].ev = "user" /\ trace[j].session = s}

UserMessages == {j \in 1..Len(messages) : messages[j].role = "user"}

\* C21: a history belongs to one session (one browser session of the gradio
\* app, one connection of the websocket app): whenever a model call is about
\* to be made, the message list given to the model holds as many user
\* messages as the calling session has sent prompts, none of another session.
SessionIsolation ==
    (app \in {"gradio", "ws"} /\ pc \in {"call1", "call2"}) =>
        Cardinality(UserMessages) = Cardinality(PromptsOf(CurrentSession(trace)))

\* ---------------------------------------------------------------- C22
IsPrefix(a, b) == Len(a) <= Len(b) /\ SubSeq(b, 1, Len(a)) = a

\* what a step does to the histories
HistoryGrows ==
    /\ (app \in {"eda", "gradio"}) => IsPrefix(messages, messages')
    /\ (app = "ws") =>
          IF Connection(trace') = Connection(trace)
          THEN IsPrefix(messages, messages')
          ELSE messages' = <<>>
    /\ (app \in {"autogen", "langgraph"}) =>
          IsPrefix(conversation_history, conversation_history')

AtModelCall ==
    \/ app = "eda" /\ pc = "loop"
          /\ ~RoundLimitReached(i, max_consecutive_function_calls_allowed)
    \/ app \in {"gradio", "agent"} /\ pc \in {"call1", "call2"}

Range(seq) == {seq[j] : j \in 1..Len(seq)}

\* index of the nearest assistant tool-call message before message j (0: none)
CallMsgBefore(j) ==
    LET js == {h \in 1..(j - 1) : Kind(messages[h]) = "tool_calls"} IN
    IF js = {} THEN 0 ELSE CHOOSE h \in js : \A g \in js : g <= h

\* C23: at every model call of eda_chat, chat_fn and run_agent the history
\* is well-formed: every tool message carries the id of a request of the
\* nearest assistant tool-call message before it, and every request of every
\* assistant tool-call message in the history has exactly one tool message,
\* placed after it.
ToolCallsWellFormed ==
    AtModelCall =>
        /\ \A j \in 1..Len(messages) :
              messages[j].role = "tool" =>
                  /\ CallMsgBefore(j) > 0
                  /\ messages[j].tool_call_id
                         \in Range(messages[CallMsgBefore(j)].calls)
        /\ \A j \in 1..Len(messages) :
              \A id \in Range(messages[j].calls) :
                  /\ Cardinality(ToolMsgsFor(id)) = 1
                  /\ \A h \in ToolMsgsFor(id) : h > j

\* ---------------------------------------------------------------- C24
\* a step of a stream that is still open
StreamStep ==
    /\ app \in {"autogen", "langgraph"} /\ streaming
    /\ pc \in {"gen", "gen_sim", "stream"}

\* C24: while a stream is open, conversation_history changes only in the
\* step that closes the stream with the end event, and then by the one
\* assistant message that holds the non-empty accumulated text: not while
\* content events are produced, not with an empty accumulator, not in the
\* step that yields the error event, and not twice in a turn.
StreamingCommitTiming ==
    [][(StreamStep /\ conversation_history' # conversation_history) =>
          /\ accumulated_content # Empty
          /\ conversation_history' =
                 Append(conversation_history,
                        HistoryMsg("assistant", accumulated_content))
          /\ out' = Append(out, EndEvent)
          /\ pc' = "idle"]_vars

\* a stream of two content events closed by the end event, its text committed
StreamCommittedAtEnd ==
    /\ IsStream /\ pc = "idle"
    /\ Len(out) = 3 /\ out[3].type = "end"
    /\ Last(conversation_history) =
           HistoryMsg("assistant", out[1].chunk \o out[2].chunk)

\* ---------------------------------------------------------------- C25
Alternates(history) ==
    \A j \in 1..Len(history) :
        history[j].role = IF j % 2 = 1 THEN "user" ELSE "assistant"

ItemContents ==
    LET items == SelectSeq(ThisTurn(trace), LAMBDA e : e.ev = "item")
    IN  [j \in 1..Len(items) |-> items[j].content]

\* the content of the final message of the same model behaviour: the last
\* item of on_messages_stream is the Response that on_messages returns; the
\* chunks of graph.stream are the pieces of the one message graph.invoke ends
\* with
FinalContent(a, items) ==
    IF items = <<>> THEN Empty
    ELSE IF a = "autogen" THEN Last(items)
    ELSE Concat(items)

\* C26: when a stream has closed with the end event, conversation_history is
\* what a non-streaming turn leaves for the same model behaviour: the history
\* up to the turn's user message, then the assistant message that
\* _handle_non_streaming commits for the final message (its content, or the
\* default text when it is empty).
StreamingMatchesNonStreaming ==
    (/\ IsStream /\ available /\ pc = "idle"
     /\ out # <<>> /\ Last(out).type = "end") =>
        conversation_history =
            Append(CommittedBy(UpToLastUser(trace), 0, Empty),
                   HistoryMsg("assistant",
                       Answer([outcome |-> "content",
                               content |-> FinalContent(app, ItemContents)])))

\* ---------------------------------------------------------------- C27
\* C27: a sandbox that an auto-off thread kills is the sandbox created by the
\* ON switch that started this thread (so it is at least 1200 seconds old);
\* a thread left over from an earlier ON / OFF cycle kills no later sandbox.
TimerKillsOwnSandbox ==
    app = "toggle" => \A p \in killedBy : p[1] = p[2]

\* ---------------------------------------------------------------- C28
\* C28: every sandbox alive at the service is the one the global sandbox
\* refers to, so at most one is alive and none is alive unreferenced.
OnlyReferencedSandboxAlive ==
    app = "toggle" => /\ remote \subseteq {sandbox}
                      /\ Cardinality(remote) <= 1

\* ---------------------------------------------------------------- C29
\* the step in which websocket_endpoint ends
HandlerEnds == pc # "closed" /\ pc' = "closed"

\* C29: in websocket_endpoint the connection's sandbox is killed in the step
\* that ends the handler, whatever ends it, and in no other step: it is alive
\* as long as the receive loop runs and is killed once per connection.
KilledOnceAtHandlerEnd ==
    [][app = "ws" =>
          /\ HandlerEnds <=> (sandbox = "alive" /\ sandbox' = "killed")
          /\ pc # "closed" => sandbox = "alive"
          /\ pc' # "closed" => sandbox' = "alive"]_vars

\* the second connection's handler was ended by a failure, after the first
\* connection's sandbox had been killed and a new one created
SecondHandlerEndedByFailure ==
    /\ app = "ws" /\ pc = "closed" /\ sandbox = "killed"
    /\ exc \in {"ModelError", "ArgsError", "SendError"}
    /\ Connection(trace) = 2

\* ---------------------------------------------------------------- C30
ToolRounds(evs) == Cardinality({j \in 1..Len(evs) : evs[j].ev = "tools"})

\* the turn is over: the handler waits for the next prompt, or has ended
TurnOver == pc \in {"idle", "recv", "closed"}

\* C30: a turn of chat_fn, websocket_endpoint and run_agent makes at most two
\* model calls and runs at most one tool round; the second call is made when
\* each tool call requested by the first response has its tool message after
\* the request; after the second call the turn is over, its response being
\* the answer unless the call (or sending the reply) raised, and no further
\* tool round was started.
TwoCallsOneToolRound ==
    app \in {"gradio", "ws", "agent"} =>
        /\ modelCalls <= 2
        /\ ToolRounds(ThisTurn(trace)) <= 1
        /\ pc = "call2" =>
              /\ modelCalls = 1
              /\ tool_calls # <<>>
              /\ \A j \in 1..Len(tool_calls) :
                    /\ Cardinality(ToolMsgsFor(tool_calls[j])) = 1
                    /\ \A h \in ToolMsgsFor(tool_calls[j]) : h > LastCallMsg
        /\ modelCalls = 2 =>
              /\ TurnOver
              /\ ToolRounds(ThisTurn(trace)) = 1
              /\ exc = "none" => /\ Last(trace).ev = "text"
                                  /\ out # <<>> /\ ~IsError(Last(out))

\* a turn answered by its second model call, after a round of two tool calls
AnsweredBySecondCall ==
    /\ app \in {"gradio", "ws", "agent"}
    /\ modelCalls = 2 /\ exc = "none" /\ TurnOver
    /\ Len(tool_calls) = 2
    /\ out # <<>>

====
